---- MODULE Spec2Model ----
(***************************************************************************)
(* Model of src-tauri/src/main.rs: the process entry point `main` and the  *)
(* command handler `open_devtools`.                                        *)
(*                                                                         *)
(* The handler is spawned by the host runtime on its asynchronous          *)
(* executor, so several invocations run in parallel; each is two steps:    *)
(* the lookup `window.get_webview_window("main")` (line 8) and the request *)
(* `webview.open_devtools()` (line 9).  The host runtime (surface          *)
(* registry, inspector, event loop) is the environment.                    *)
(***************************************************************************)
EXTENDS Integers, Sequences, FiniteSets

\* Number of front-end invocations the model follows.
MaxInvocations == 2

Invocations == 1 .. MaxInvocations

\* Labels of the surfaces the host runtime may hold; "main" is the one the
\* handler names, "settings" stands for any other surface.
Labels == {"main", "settings"}

\* Option::None of the lookup.
None == "none"

\* The label the handler resolves (line 8).
MainLabel == "main"

\* The command name generate_handler! registers (line 15).
CommandName == "open_devtools"

\* The message of .expect (line 17).
PanicMessage == "error while running tauri application"

VARIABLES
    phase,       \* position of main: start, built, configured, running,
                 \* run_err, panicked, exited
    ctxValid,    \* whether generate_context!() yields a usable runtime context
    registered,  \* command names bound by invoke_handler
    surfaces,    \* labels of the live surfaces (host runtime registry)
    inspector,   \* per label: is the inspector shown
    pc,          \* per invocation: idle, lookup, open, done
    caller,      \* per invocation: the `window` argument
    webview,     \* per invocation: the result of the lookup
    seenMain,    \* per invocation: did "main" exist when it looked up
    issued,      \* per invocation and label: open requests issued
    outcome,     \* per invocation: none, ok, failed (result of the request)
    ret,         \* per invocation: pending, unit, error (what the caller gets)
    diag,        \* the diagnostic stream (stderr)
    exitCode     \* -1 while the process lives, then its exit code

vars == <<phase, ctxValid, registered, surfaces, inspector, pc, caller,
          webview, seenMain, issued, outcome, ret, diag, exitCode>>

procVars == <<phase, ctxValid, registered, diag, exitCode>>
invVars == <<pc, caller, webview, seenMain, issued, outcome, ret>>

NoRequests == [l \in Labels |-> 0]

Init ==
    /\ phase = "start"
    /\ ctxValid \in BOOLEAN
    /\ registered = {}
    /\ surfaces = {}
    /\ inspector = [l \in Labels |-> FALSE]
    /\ pc = [i \in Invocations |-> "idle"]
    /\ caller = [i \in Invocations |-> None]
    /\ webview = [i \in Invocations |-> None]
    /\ seenMain = [i \in Invocations |-> FALSE]
    /\ issued = [i \in Invocations |-> NoRequests]
    /\ outcome = [i \in Invocations |-> "none"]
    /\ ret = [i \in Invocations |-> "pending"]
    /\ diag = <<>>
    /\ exitCode = -1

----------------------------------------------------------------------------
(* main, lines 13-18 *)

\* tauri::Builder::default()
BuilderDefault ==
    /\ phase = "start"
    /\ phase' = "built"
    /\ UNCHANGED <<ctxValid, registered, surfaces, inspector, invVars, diag,
                   exitCode>>

\* .invoke_handler(tauri::generate_handler![open_devtools])
InvokeHandler ==
    /\ phase = "built"
    /\ phase' = "configured"
    /\ registered' = registered \cup {CommandName}
    /\ UNCHANGED <<ctxValid, surfaces, inspector, invVars, diag, exitCode>>

\* Variant of RunStarts: run is called on the builder before invoke_handler.
RunBeforeRegister ==
    /\ phase \in {"built", "configured"}
    /\ ctxValid
    /\ phase' = "running"
    /\ UNCHANGED <<ctxValid, registered, surfaces, inspector, invVars, diag,
                   exitCode>>

\* .run(tauri::generate_context!()) with a usable context: the event loop
\* starts and run does not return until the application ends.
RunStarts ==
    /\ phase = "configured"
    /\ ctxValid
    /\ phase' = "running"
    /\ UNCHANGED <<ctxValid, registered, surfaces, inspector, invVars, diag,
                   exitCode>>

\* .run(...) with an unusable context: run returns Err before any event loop.
RunFails ==
    /\ phase = "configured"
    /\ ~ctxValid
    /\ phase' = "run_err"
    /\ UNCHANGED <<ctxValid, registered, surfaces, inspector, invVars, diag,
                   exitCode>>

\* Variant of ExpectPanics: the Err of run is dropped (`let _ = ...run(...)`)
\* and main returns normally.
ExpectSwallows ==
    /\ phase = "run_err"
    /\ phase' = "exited"
    /\ exitCode' = 0
    /\ UNCHANGED <<ctxValid, registered, surfaces, inspector, invVars, diag>>

\* .expect("error while running tauri application") on Err: panic.
ExpectPanics ==
    /\ phase = "run_err"
    /\ phase' = "panicked"
    /\ diag' = Append(diag, PanicMessage)
    /\ exitCode' = 101
    /\ UNCHANGED <<ctxValid, registered, surfaces, inspector, invVars>>

\* The host windowing system ends the application: run returns Ok(()),
\* expect passes it through, main returns.
RunReturns ==
    /\ phase = "running"
    /\ phase' = "exited"
    /\ exitCode' = 0
    /\ UNCHANGED <<ctxValid, registered, surfaces, inspector, invVars, diag>>

----------------------------------------------------------------------------
(* The host runtime: surfaces and their inspectors *)

CreateSurface(l) ==
    /\ phase = "running"
    /\ l \notin surfaces
    /\ surfaces' = surfaces \cup {l}
    /\ UNCHANGED <<procVars, inspector, invVars>>

CloseSurface(l) ==
    /\ phase = "running"
    /\ l \in surfaces
    /\ surfaces' = surfaces \ {l}
    /\ inspector' = [inspector EXCEPT ![l] = FALSE]
    /\ UNCHANGED <<procVars, invVars>>

\* The user closes the inspector panel.
CloseInspector(l) ==
    /\ phase = "running"
    /\ inspector[l]
    /\ inspector' = [inspector EXCEPT ![l] = FALSE]
    /\ UNCHANGED <<procVars, surfaces, invVars>>

\* Script in surface w invokes the command; the runtime spawns the handler
\* with `window` bound to w.
Dispatch(i, w) ==
    /\ phase = "running"
    /\ CommandName \in registered
    /\ pc[i] = "idle"
    /\ w \in surfaces
    /\ pc' = [pc EXCEPT ![i] = "lookup"]
    /\ caller' = [caller EXCEPT ![i] = w]
    /\ UNCHANGED <<procVars, surfaces, inspector, webview, seenMain, issued,
                   outcome, ret>>

----------------------------------------------------------------------------
(* open_devtools, lines 5-11 *)

\* Manager::get_webview_window: a read of the registry.
get_webview_window(S, label) == IF label \in S THEN label ELSE None

\* Variant of Lookup: a missing surface is reported on the diagnostic stream.
LookupLogsMissing(i) ==
    /\ phase = "running"
    /\ pc[i] = "lookup"
    /\ LET w == get_webview_window(surfaces, MainLabel) IN
         /\ webview' = [webview EXCEPT ![i] = w]
         /\ seenMain' = [seenMain EXCEPT ![i] = (MainLabel \in surfaces)]
         /\ IF w = None
              THEN /\ pc' = [pc EXCEPT ![i] = "done"]
                   /\ ret' = [ret EXCEPT ![i] = "unit"]
                   /\ diag' = Append(diag, "main window not found")
              ELSE /\ pc' = [pc EXCEPT ![i] = "open"]
                   /\ UNCHANGED <<ret, diag>>
    /\ UNCHANGED <<phase, ctxValid, registered, exitCode, surfaces, inspector,
                   caller, issued, outcome>>

\* Variant of Lookup: the handler waits for the surface to appear.
LookupWaits(i) ==
    /\ phase = "running"
    /\ pc[i] = "lookup"
    /\ MainLabel \in surfaces
    /\ webview' = [webview EXCEPT ![i] = MainLabel]
    /\ seenMain' = [seenMain EXCEPT ![i] = TRUE]
    /\ pc' = [pc EXCEPT ![i] = "open"]
    /\ UNCHANGED <<procVars, surfaces, inspector, caller, issued, outcome, ret>>

\* Variant of Lookup: the surface is the one bound to the invocation
\* (`window` itself) instead of the one named "main".
LookupAmbient(i) ==
    /\ phase = "running"
    /\ pc[i] = "lookup"
    /\ LET w == get_webview_window(surfaces, caller[i]) IN
         /\ webview' = [webview EXCEPT ![i] = w]
         /\ seenMain' = [seenMain EXCEPT ![i] = (MainLabel \in surfaces)]
         /\ IF w = None
              THEN /\ pc' = [pc EXCEPT ![i] = "done"]
                   /\ ret' = [ret EXCEPT ![i] = "unit"]
              ELSE /\ pc' = [pc EXCEPT ![i] = "open"]
                   /\ UNCHANGED ret
    /\ UNCHANGED <<procVars, surfaces, inspector, caller, issued, outcome>>

\* Line 8: `if let Some(webview) = window.get_webview_window("main")`.
\* On None the body is skipped and the future completes with ().
Lookup(i) ==
    /\ phase = "running"
    /\ pc[i] = "lookup"
    /\ LET w == get_webview_window(surfaces, MainLabel) IN
         /\ webview' = [webview EXCEPT ![i] = w]
         /\ seenMain' = [seenMain EXCEPT ![i] = (MainLabel \in surfaces)]
         /\ IF w = None
              THEN /\ pc' = [pc EXCEPT ![i] = "done"]
                   /\ ret' = [ret EXCEPT ![i] = "unit"]
              ELSE /\ pc' = [pc EXCEPT ![i] = "open"]
                   /\ UNCHANGED ret
    /\ UNCHANGED <<procVars, surfaces, inspector, caller, issued, outcome>>

\* Results the runtime can give the request on surface t: it can only show
\* the inspector of a live surface, and may fail to show it even then.
RequestResults(t) == IF t \in surfaces THEN {"ok", "failed"} ELSE {"failed"}

\* What the runtime does with a request on surface t whose result is r: a
\* request that succeeds shows the inspector of t, one that fails shows
\* nothing.
ShowInspector(insp, t, r) ==
    IF r = "ok" THEN [insp EXCEPT ![t] = TRUE] ELSE insp

\* Variant of OpenRequest: no request when the inspector is already shown.
OpenRequestIfHidden(i) ==
    /\ phase = "running"
    /\ pc[i] = "open"
    /\ IF inspector[webview[i]]
         THEN UNCHANGED <<issued, outcome, inspector>>
         ELSE \E r \in RequestResults(webview[i]) :
                /\ issued' = [issued EXCEPT ![i][webview[i]] = @ + 1]
                /\ outcome' = [outcome EXCEPT ![i] = r]
                /\ inspector' = ShowInspector(inspector, webview[i], r)
    /\ pc' = [pc EXCEPT ![i] = "done"]
    /\ ret' = [ret EXCEPT ![i] = "unit"]
    /\ UNCHANGED <<procVars, surfaces, caller, webview, seenMain>>

\* Variant of OpenRequest: a failed request is written to the diagnostic
\* stream (`if let Err(e) = ... { eprintln!(...) }`).
OpenRequestLogsFailure(i) ==
    /\ phase = "running"
    /\ pc[i] = "open"
    /\ \E r \in RequestResults(webview[i]) :
         /\ issued' = [issued EXCEPT ![i][webview[i]] = @ + 1]
         /\ outcome' = [outcome EXCEPT ![i] = r]
         /\ inspector' = ShowInspector(inspector, webview[i], r)
         /\ diag' = IF r = "failed"
                      THEN Append(diag, "Failed to open devtools")
                      ELSE diag
    /\ pc' = [pc EXCEPT ![i] = "done"]
    /\ ret' = [ret EXCEPT ![i] = "unit"]
    /\ UNCHANGED <<phase, ctxValid, registered, exitCode, surfaces, caller,
                   webview, seenMain>>

\* Variant of OpenRequest: the request is made under a lock another
\* invocation at the same line holds.
OpenRequestExclusive(i) ==
    /\ phase = "running"
    /\ pc[i] = "open"
    /\ \A j \in Invocations \ {i} : pc[j] # "open"
    /\ \E r \in RequestResults(webview[i]) :
         /\ issued' = [issued EXCEPT ![i][webview[i]] = @ + 1]
         /\ outcome' = [outcome EXCEPT ![i] = r]
         /\ inspector' = ShowInspector(inspector, webview[i], r)
    /\ pc' = [pc EXCEPT ![i] = "done"]
    /\ ret' = [ret EXCEPT ![i] = "unit"]
    /\ UNCHANGED <<procVars, surfaces, caller, webview, seenMain>>

\* Variant of OpenRequest: a surface whose request failed is closed.
OpenRequestClosesOnFailure(i) ==
    /\ phase = "running"
    /\ pc[i] = "open"
    /\ \E r \in RequestResults(webview[i]) :
         /\ issued' = [issued EXCEPT ![i][webview[i]] = @ + 1]
         /\ outcome' = [outcome EXCEPT ![i] = r]
         /\ inspector' = [inspector EXCEPT ![webview[i]] = (r = "ok")]
         /\ surfaces' = IF r = "ok" THEN surfaces ELSE surfaces \ {webview[i]}
    /\ pc' = [pc EXCEPT ![i] = "done"]
    /\ ret' = [ret EXCEPT ![i] = "unit"]
    /\ UNCHANGED <<procVars, caller, webview, seenMain>>

\* Variant of OpenRequest: the request toggles the inspector.
OpenRequestToggles(i) ==
    /\ phase = "running"
    /\ pc[i] = "open"
    /\ \E r \in RequestResults(webview[i]) :
         /\ issued' = [issued EXCEPT ![i][webview[i]] = @ + 1]
         /\ outcome' = [outcome EXCEPT ![i] = r]
         /\ inspector' = IF r = "ok"
                           THEN [inspector EXCEPT ![webview[i]] = ~@]
                           ELSE inspector
    /\ pc' = [pc EXCEPT ![i] = "done"]
    /\ ret' = [ret EXCEPT ![i] = "unit"]
    /\ UNCHANGED <<procVars, surfaces, caller, webview, seenMain>>

\* Line 9: `let _ = webview.open_devtools();` then the future completes
\* with ().  The result of the request is dropped.
OpenRequest(i) ==
    /\ phase = "running"
    /\ pc[i] = "open"
    /\ \E r \in RequestResults(webview[i]) :
         /\ issued' = [issued EXCEPT ![i][webview[i]] = @ + 1]
         /\ outcome' = [outcome EXCEPT ![i] = r]
         /\ inspector' = ShowInspector(inspector, webview[i], r)
    /\ pc' = [pc EXCEPT ![i] = "done"]
    /\ ret' = [ret EXCEPT ![i] = "unit"]
    /\ UNCHANGED <<procVars, surfaces, caller, webview, seenMain>>

----------------------------------------------------------------------------

\* fn main: the builder chain of lines 14-17, one step per call.
main ==
    \/ BuilderDefault
    \/ InvokeHandler
    \/ RunStarts
    \/ RunFails
    \/ ExpectPanics
    \/ RunReturns

\* async fn open_devtools: the next step of invocation i.
open_devtools(i) ==
    \/ Lookup(i)
    \/ OpenRequest(i)

\* What the host runtime and the user do around the handler.
Host ==
    \/ \E l \in Labels : CreateSurface(l)
    \/ \E l \in Labels : CloseSurface(l)
    \/ \E l \in Labels : CloseInspector(l)
    \/ \E i \in Invocations, w \in Labels : Dispatch(i, w)

Next ==
    \/ main
    \/ Host
    \/ \E i \in Invocations : open_devtools(i)

Spec == Init /\ [][Next]_vars

\* The executor schedules every spawned handler: each step of a handler that
\* can be taken is eventually taken.
FairSpec ==
    /\ Spec
    /\ \A i \in Invocations : WF_vars(Lookup(i)) /\ WF_vars(OpenRequest(i))

TypeOK ==
    /\ phase \in {"start", "built", "configured", "running", "run_err",
                  "panicked", "exited"}
    /\ ctxValid \in BOOLEAN
    /\ registered \subseteq {CommandName}
    /\ surfaces \subseteq Labels
    /\ inspector \in [Labels -> BOOLEAN]
    /\ pc \in [Invocations -> {"idle", "lookup", "open", "done"}]
    /\ caller \in [Invocations -> Labels \cup {None}]
    /\ webview \in [Invocations -> Labels \cup {None}]
    /\ seenMain \in [Invocations -> BOOLEAN]
    /\ \A i \in Invocations : \A l \in Labels : issued[i][l] \in 0 .. 2
    /\ outcome \in [Invocations -> {"none", "ok", "failed"}]
    /\ ret \in [Invocations -> {"pending", "unit", "error"}]
    /\ Len(diag) <= 1 + MaxInvocations
    /\ exitCode \in {-1, 0, 101}

----------------------------------------------------------------------------
(* Properties *)

InFlight(i) == pc[i] \in {"lookup", "open"}
Done(i) == pc[i] = "done"
Alive == phase = "running"

RECURSIVE TotalIssued(_, _)
\* Open requests issued on surface l by the invocations of S.
TotalIssued(S, l) ==
    IF S = {} THEN 0
    ELSE LET i == CHOOSE x \in S : TRUE
         IN issued[i][l] + TotalIssued(S \ {i}, l)

\* C1: an invocation that found "main" at its lookup has, once complete,
\* issued exactly one open request on "main" and returned (); before it
\* completes it has issued none, so it never issues two.
C1_ExactlyOneRequest ==
    \A i \in Invocations :
        /\ issued[i][MainLabel] <= 1
        /\ (Done(i) /\ seenMain[i]) =>
               /\ issued[i][MainLabel] = 1
               /\ outcome[i] # "none"
               /\ ret[i] = "unit"
        /\ ~Done(i) => issued[i][MainLabel] = 0 /\ ret[i] = "pending"

C1_Witness ==
    \E i \in Invocations :
        Done(i) /\ seenMain[i] /\ issued[i][MainLabel] = 1 /\ ret[i] = "unit"

\* C2: an invocation that found no "main" at its lookup completes with (),
\* has issued no open request on any surface, returned no error, and nothing
\* is on the diagnostic stream.
C2_MissingSurfaceIsSilent ==
    \A i \in Invocations :
        (pc[i] \in {"open", "done"} /\ ~seenMain[i]) =>
            /\ Done(i)
            /\ \A l \in Labels : issued[i][l] = 0
            /\ outcome[i] = "none"
            /\ ret[i] = "unit"
            /\ diag = <<>>

C2_Witness ==
    \E i \in Invocations :
        Done(i) /\ ~seenMain[i] /\ caller[i] # MainLabel /\ ret[i] = "unit"

\* C3: when the open request of an invocation failed, the invocation is
\* complete with (), nothing is on the diagnostic stream, the process has not
\* panicked, and while the application runs every idle invocation can still
\* be dispatched from every live surface.
C3_FailureIsDiscarded ==
    \A i \in Invocations :
        outcome[i] = "failed" =>
            /\ Done(i)
            /\ ret[i] = "unit"
            /\ diag = <<>>
            /\ phase \in {"running", "exited"}
            /\ exitCode # 101
            /\ Alive =>
                 \A j \in Invocations, w \in surfaces :
                     pc[j] = "idle" => ENABLED Dispatch(j, w)

C3_Witness ==
    \E i, j \in Invocations :
        /\ outcome[i] = "failed" /\ seenMain[i] /\ Done(i)
        /\ Alive
        /\ InFlight(j)

\* C4: while the application runs, the next step of every invocation in
\* flight is enabled whatever the other invocations are doing, no invocation
\* is answered with an error, and the open requests issued on "main" are
\* one per completed invocation that found "main".
C4_IndependentInvocations ==
    /\ \A i \in Invocations :
           /\ (Alive /\ InFlight(i)) => ENABLED open_devtools(i)
           /\ ret[i] # "error"
    /\ TotalIssued(Invocations, MainLabel)
           = Cardinality({i \in Invocations : Done(i) /\ seenMain[i]})

C4_Witness ==
    /\ Alive
    /\ \A i \in Invocations : pc[i] = "open"
    /\ \E i \in Invocations : ENABLED OpenRequest(i)

\* C5: a step that moves an invocation (its dispatch, its lookup, its open
\* request) leaves the surface registry, the registered commands, the
\* position of main, the diagnostic stream and the inspector of every surface
\* other than "main" as they were.
C5_FrameOfInvocation ==
    [][pc' # pc =>
          /\ surfaces' = surfaces
          /\ registered' = registered
          /\ phase' = phase /\ exitCode' = exitCode /\ ctxValid' = ctxValid
          /\ diag' = diag
          /\ \A l \in Labels \ {MainLabel} : inspector'[l] = inspector[l]]_vars

C5_Witness ==
    \E i, j \in Invocations :
        /\ outcome[i] = "ok" /\ outcome[j] = "failed"
        /\ surfaces = Labels
        /\ inspector[MainLabel]

\* C6: the application runs (or has run) only with a usable context, and then
\* the command is registered and can be dispatched from every live surface;
\* with an unusable context main ends in the panic, with the message of
\* expect on the diagnostic stream and exit code 101, and no invocation was
\* ever dispatched.
C6_StartupOutcomes ==
    /\ phase \in {"running", "exited"} => ctxValid /\ CommandName \in registered
    /\ Alive =>
         \A i \in Invocations, w \in surfaces :
             pc[i] = "idle" => ENABLED Dispatch(i, w)
    /\ phase \in {"run_err", "panicked"} => ~ctxValid
    /\ ~ctxValid => \A i \in Invocations : pc[i] = "idle"
    /\ phase = "panicked" <=> exitCode = 101
    /\ phase = "panicked" => diag = <<PanicMessage>>
    /\ phase = "exited" <=> exitCode = 0

C6_Witness ==
    /\ phase = "panicked"
    /\ ~ctxValid
    /\ diag = <<PanicMessage>>
    /\ exitCode = 101

\* C7: an open request that succeeds leaves the inspector of "main" shown,
\* and an open request made while it is shown, whatever its result, leaves
\* the inspector state of every surface as it was.
C7_Idempotent ==
    [][\A i \in Invocations :
          (pc[i] = "open" /\ pc'[i] = "done") =>
              /\ outcome'[i] = "ok" => inspector'[MainLabel]
              /\ inspector[MainLabel] => inspector' = inspector]_vars

C7_Witness ==
    /\ inspector[MainLabel]
    /\ \A i \in Invocations : outcome[i] = "ok"

\* C8 as stated: every dispatched invocation eventually completes.
C8_AlwaysCompletes ==
    \A i \in Invocations : InFlight(i) ~> Done(i)

\* C8 as amended: every dispatched invocation eventually completes, unless
\* the application ends first.
C8_CompletesWhileRunning ==
    \A i \in Invocations : InFlight(i) ~> (Done(i) \/ phase = "exited")

C8_Witness ==
    \E i, j \in Invocations :
        /\ Done(i) /\ ~seenMain[i]
        /\ Done(j) /\ outcome[j] = "failed"
        /\ Alive

\* C9: whenever the application is running the command is registered, and a
\* registered command is never unregistered.
C9_RegisteredBeforeRun ==
    /\ [](phase \in {"running", "exited"} => CommandName \in registered)
    /\ [](phase \in {"start", "built"} => ~Alive /\ registered = {})
    /\ ([][(CommandName \in registered) => (CommandName \in registered')]_vars)

C9_Witness ==
    /\ Alive
    /\ CommandName \in registered
    /\ \E i \in Invocations : InFlight(i)

\* C10: open requests are issued on "main" only: an invocation never issues
\* one on another surface, its calling surface included, a completed
\* invocation has issued one on "main" exactly if "main" existed at its
\* lookup, and the inspector of a surface other than "main" is never shown.
C10_TargetsMain ==
    /\ \A i \in Invocations :
           /\ \A l \in Labels \ {MainLabel} : issued[i][l] = 0
           /\ webview[i] \in {None, MainLabel}
           /\ Done(i) => (issued[i][MainLabel] = 1 <=> seenMain[i])
    /\ \A l \in Labels \ {MainLabel} : ~inspector[l]

C10_Witness ==
    \E i \in Invocations :
        /\ Done(i)
        /\ caller[i] # MainLabel
        /\ seenMain[i]
        /\ issued[i][MainLabel] = 1
        /\ outcome[i] = "ok"

====
